---- MODULE Spec2Model ----
(***************************************************************************)
(* A model of tui-textarea's line highlighter (src/src/highlight.rs) and   *)
(* of its viewport and scroll policy (src/src/widget.rs).                  *)
(*                                                                         *)
(* Seven specifications share the variables below:                         *)
(*   SpecVP    the Viewport object: store, scroll and its three readers    *)
(*   SpecNST   next_scroll_top as a pure function of its three arguments   *)
(*   SpecConc  one storing writer and concurrent readers of the Viewport   *)
(*   SpecTabs  replace_tabs as a pure function                             *)
(*   SpecHL    LineHighlighter: cursor_line, search, into_spans            *)
(*   SpecText  Renderer::text and LineHighlighter::line_number on a buffer *)
(*   SpecRender  Renderer::render between scroll() calls and cursor moves  *)
(* A specification leaves the variables of the others at their initial     *)
(* values.                                                                 *)
(***************************************************************************)
EXTENDS Integers, Sequences, FiniteSets, TLC

VARIABLES
    overflow_checks, \* the build: TRUE = overflow checks on (debug), FALSE = wrapping (release)
    panicked,        \* a panic has unwound the program
    vp,              \* Viewport.0, the AtomicU64, as four 16-bit limbs <<63..48, 47..32, 31..16, 15..0>>
    op,              \* the last Viewport call with its arguments and the state it found
    nops,            \* Viewport calls made so far
    nst,             \* next_scroll_top: its arguments and its outcome
    written,         \* SpecConc: the quadruples store() has written, with the initial one
    frames,          \* SpecConc: the frames rendered so far
    rd_pc,           \* SpecConc: each reader's position
    rd_u,            \* SpecConc: the word each reader loaded
    rd_res,          \* SpecConc: what each reader's call returned
    rt,              \* replace_tabs: its arguments and its result
    hl,              \* the LineHighlighter's fields
    hl_pc,           \* "idle" | "new" | "built" (into_spans has consumed it)
    hl_calls,        \* the requests made of the highlighter (cursor column, matches)
    out,             \* the spans into_spans returned
    hl_run,          \* into_spans's loop: its style and stack after each boundary
    ta,              \* the TextArea the Renderer borrows: its lines, cursor and line-number style
    rn,              \* Renderer::render: the last call and, when no scroll() came between, the one before it
    tx               \* Renderer::text called on its own: its arguments and what it returned

vars == <<overflow_checks, panicked, vp, op, nops, nst, written, frames,
          rd_pc, rd_u, rd_res, rt, hl, hl_pc, hl_calls, out, hl_run, ta, rn, tx>>

vpVars == <<vp, op, nops>>
nstVars == <<nst>>
concVars == <<written, frames, rd_pc, rd_u, rd_res>>
tabVars == <<rt>>
hlVars == <<hl, hl_pc, hl_calls, out, hl_run>>
rdrVars == <<ta, rn, tx>>

(***************************************************************************)
(* Bounds of the model.                                                    *)
(***************************************************************************)
EdgeWidth == 1      \* 16-bit inputs are drawn from 0..EdgeWidth and from the top of the range
MaxOps == 2         \* store() and scroll() calls in one run, render's store included
MaxFrames == 2      \* SpecConc: frames rendered
NumReaders == 2     \* SpecConc: concurrent readers
MaxLen == 3         \* characters of a line
MaxMatches == 2     \* search ranges handed to one search() call
MaxTab == 2         \* tab widths 0..MaxTab
MaxSpans == 2       \* SpecText: spans of a buffer line
MaxHeight == 2      \* SpecText: height of the area text() is called for

(***************************************************************************)
(* Machine integers.                                                       *)
(***************************************************************************)
U16Max == 65535
I16Min == -32768
I16Max == 32767
LimbBits == 16

Min(a, b) == IF a < b THEN a ELSE b
Max(a, b) == IF a < b THEN b ELSE a

U16Sample == (0..EdgeWidth) \cup {U16Max}
I16Sample == {I16Min, -1, 0, 1, I16Max}

\* The outcome of an arithmetic step: a value, or a panic.
Ok(v) == [ok |-> TRUE, val |-> v]
Panic == [ok |-> FALSE, val |-> 0]

\* u16 `a + b`: panics under overflow checks, wraps without them.
AddU16(a, b) ==
    IF a + b <= U16Max THEN Ok(a + b)
    ELSE IF overflow_checks THEN Panic ELSE Ok((a + b) % (U16Max + 1))

\* u16 `a - b`: panics under overflow checks, wraps without them.
SubU16(a, b) ==
    IF a >= b THEN Ok(a - b)
    ELSE IF overflow_checks THEN Panic ELSE Ok((a - b) % (U16Max + 1))

\* i16 `-d`: -(-32768) panics under overflow checks, wraps to -32768 without them.
NegI16(d) ==
    IF d # I16Min THEN Ok(-d)
    ELSE IF overflow_checks THEN Panic ELSE Ok(I16Min)

\* `d as u16` for an i16 d: two's complement reinterpretation.
I16AsU16(d) == d % (U16Max + 1)

saturating_add(a, b) == Min(a + b, U16Max)
saturating_sub(a, b) == Max(a - b, 0)

(***************************************************************************)
(* The 64-bit word, as four 16-bit limbs, most significant first.          *)
(***************************************************************************)
RECURSIVE BitOr16(_, _, _)
BitOr16(a, b, n) ==
    IF n = 0 THEN 0
    ELSE IF a = 0 THEN b % (2 ^ n)
    ELSE IF b = 0 THEN a % (2 ^ n)
    ELSE (IF a % 2 = 1 \/ b % 2 = 1 THEN 1 ELSE 0)
         + 2 * BitOr16(a \div 2, b \div 2, n - 1)

RECURSIVE BitAnd16(_, _, _)
BitAnd16(a, b, n) ==
    IF n = 0 \/ a = 0 \/ b = 0 THEN 0
    ELSE (IF a % 2 = 1 /\ b % 2 = 1 THEN 1 ELSE 0)
         + 2 * BitAnd16(a \div 2, b \div 2, n - 1)

\* `x as u64` for a u16 x
AsU64(x) == <<0, 0, 0, x>>
\* `u as u16`: the low 16 bits
AsU16(u) == u[4]
\* `u << k` and `u >> k` for k a multiple of 16
Shl64(u, k) == [i \in 1..4 |-> IF i + k \div LimbBits <= 4 THEN u[i + k \div LimbBits] ELSE 0]
Shr64(u, k) == [i \in 1..4 |-> IF i - k \div LimbBits >= 1 THEN u[i - k \div LimbBits] ELSE 0]
BitOr64(u, v) == [i \in 1..4 |-> BitOr16(u[i], v[i], LimbBits)]
BitAnd64(u, v) == [i \in 1..4 |-> BitAnd16(u[i], v[i], LimbBits)]

\* A mask that keeps the width's bits only: 0xffff_0000_0000_0000
HighMaskWidthOnly == <<U16Max, 0, 0, 0>>

\* 0xffff_ffff_0000_0000
HighMask == <<U16Max, U16Max, 0, 0>>

(***************************************************************************)
(* Viewport (widget.rs 26-84).                                             *)
(***************************************************************************)
\* Viewport::scroll_top on the loaded word u
scroll_top(u) == <<AsU16(Shr64(u, 16)), AsU16(u)>>

\* A rect() that loads the word a second time for the width and the height.
rect_two_loads(u) ==
    <<AsU16(Shr64(u, 16)), AsU16(u), AsU16(Shr64(vp, 48)), AsU16(Shr64(vp, 32))>>

\* Viewport::rect on the loaded word u: (row, col, width, height)
rect(u) ==
    LET width == AsU16(Shr64(u, 48))
        height == AsU16(Shr64(u, 32))
        row == AsU16(Shr64(u, 16))
        col == AsU16(u)
    IN <<row, col, width, height>>

\* Viewport::position, from the quadruple rect() returned
position_of(r) ==
    LET row_top == r[1]
        col_top == r[2]
        width == r[3]
        height == r[4]
        row_bottom == saturating_sub(saturating_add(row_top, height), 1)
        col_bottom == saturating_sub(saturating_add(col_top, width), 1)
    IN <<row_top, col_top, Max(row_top, row_bottom), Max(col_top, col_bottom)>>

\* Viewport::position on the loaded word u
position(u) == position_of(rect(u))

\* A store that shifts the height into the row's bits.
pack_misplaced(row, col, width, height) ==
    BitOr64(BitOr64(BitOr64(Shl64(AsU64(width), 48), Shl64(AsU64(height), 16)),
                    Shl64(AsU64(row), 16)),
            AsU64(col))

\* Viewport::store: the word it writes
pack(row, col, width, height) ==
    BitOr64(BitOr64(BitOr64(Shl64(AsU64(width), 48), Shl64(AsU64(height), 32)),
                    Shl64(AsU64(row), 16)),
            AsU64(col))

\* Viewport::scroll::apply_scroll
apply_scroll(pos, delta) ==
    IF delta >= 0
    THEN Ok(saturating_add(pos, I16AsU16(delta)))
    ELSE LET n == NegI16(delta)
         IN IF n.ok THEN Ok(saturating_sub(pos, I16AsU16(n.val))) ELSE Panic

NoRect == <<0, 0, 0, 0>>
NoOp == [name |-> "none", args |-> <<>>, before |-> NoRect]

\* Viewport::store(row, col, width, height)
Store(row, col, width, height) ==
    /\ ~panicked
    /\ nops < MaxOps
    /\ vp' = pack(row, col, width, height)
    /\ op' = [name |-> "store", args |-> <<row, col, width, height>>, before |-> NoRect]
    /\ nops' = nops + 1
    /\ UNCHANGED <<rdrVars, overflow_checks, panicked, nstVars, concVars, tabVars, hlVars>>

\* Viewport::scroll(rows, cols)
Scroll(rows, cols) ==
    /\ ~panicked
    /\ nops < MaxOps
    /\ LET row == apply_scroll(AsU16(Shr64(vp, 16)), rows)
           col == IF row.ok THEN apply_scroll(AsU16(vp), cols) ELSE Panic
       IN /\ IF row.ok /\ col.ok
             THEN /\ vp' = BitOr64(BitOr64(BitAnd64(vp, HighMask), Shl64(AsU64(row.val), 16)),
                                  AsU64(col.val))
                  /\ panicked' = FALSE
             ELSE /\ vp' = vp
                  /\ panicked' = TRUE
          /\ op' = [name |-> "scroll", args |-> <<rows, cols>>, before |-> rect(vp)]
    /\ nops' = nops + 1
    /\ UNCHANGED <<rdrVars, overflow_checks, nstVars, concVars, tabVars, hlVars>>

(***************************************************************************)
(* next_scroll_top (widget.rs 295-303; the same function at 145-153).      *)
(***************************************************************************)
ScenarioTops == {5, 7, 10, 20}
NstSample == (0..(EdgeWidth + 1)) \cup ((U16Max - EdgeWidth)..U16Max) \cup ScenarioTops

\* A next_scroll_top that scrolls forward one row too far.
next_scroll_top_off_by_one(prev_top, cursor, length) ==
    IF cursor < prev_top THEN Ok(cursor)
    ELSE LET sum == AddU16(prev_top, length)
         IN IF ~sum.ok THEN Panic
            ELSE IF sum.val <= cursor THEN SubU16(cursor, length)
            ELSE Ok(prev_top)

next_scroll_top(prev_top, cursor, length) ==
    IF cursor < prev_top THEN Ok(cursor)
    ELSE LET sum == AddU16(prev_top, length)
         IN IF ~sum.ok THEN Panic
            ELSE IF sum.val <= cursor
                 THEN LET c1 == AddU16(cursor, 1)
                      IN IF c1.ok THEN SubU16(c1.val, length) ELSE Panic
            ELSE Ok(prev_top)

\* One call of next_scroll_top on the arguments Init drew.
NextScrollTop ==
    /\ nst.pc = "call"
    /\ nst' = [nst EXCEPT !.pc = "done",
                          !.res = next_scroll_top(nst.prev_top, nst.cursor, nst.length)]
    /\ UNCHANGED <<rdrVars, overflow_checks, panicked, vpVars, concVars, tabVars, hlVars>>

(***************************************************************************)
(* One writer and concurrent readers of the Viewport (widget.rs 36-68).    *)
(***************************************************************************)
\* What the render pass stores in its frames.
ConcQuads == {<<1, 2, 3, 4>>, <<U16Max, U16Max - 1, 5, 6>>}
Methods == {"rect", "scroll_top", "position"}
NoRes == [kind |-> "none", val |-> <<>>]

\* The render pass: self.0.store(u, Ordering::Relaxed), one atomic store of the word.
StoreFrame(q) ==
    /\ frames < MaxFrames
    /\ vp' = pack(q[1], q[2], q[3], q[4])
    /\ written' = written \cup {q}
    /\ frames' = frames + 1
    /\ UNCHANGED <<rdrVars, overflow_checks, panicked, op, nops, rd_pc, rd_u, rd_res,
                   nstVars, tabVars, hlVars>>

\* A reader enters method m: self.0.load(Ordering::Relaxed), one atomic load.
ReaderLoad(t, m) ==
    /\ rd_pc[t] = "idle"
    /\ rd_pc' = [rd_pc EXCEPT ![t] = m]
    /\ rd_u' = [rd_u EXCEPT ![t] = vp]
    /\ rd_res' = [rd_res EXCEPT ![t] = NoRes]
    /\ UNCHANGED <<rdrVars, overflow_checks, panicked, vp, op, nops, written, frames,
                   nstVars, tabVars, hlVars>>

\* The reader decodes the word it loaded and returns.
ReaderReturn(t) ==
    /\ rd_pc[t] # "idle"
    /\ rd_res' = [rd_res EXCEPT ![t] =
                     [kind |-> rd_pc[t],
                      val |-> CASE rd_pc[t] = "rect" -> rect(rd_u[t])
                                [] rd_pc[t] = "scroll_top" -> scroll_top(rd_u[t])
                                [] OTHER -> position(rd_u[t])]]
    /\ rd_pc' = [rd_pc EXCEPT ![t] = "idle"]
    /\ rd_u' = [rd_u EXCEPT ![t] = <<0, 0, 0, 0>>]
    /\ UNCHANGED <<rdrVars, overflow_checks, panicked, vp, op, nops, written, frames,
                   nstVars, tabVars, hlVars>>

(***************************************************************************)
(* Text: a str is a sequence of characters, each one or two bytes long.    *)
(***************************************************************************)
Tab == "\t"
Space == " "
Wide == "e'"        \* a two-byte character, such as U+00E9
Alphabet == {"a", Wide, Tab}
TabLens == (0..MaxTab) \cup {4}

Strs(n) == UNION {[1..k -> Alphabet] : k \in 0..n}

\* char::len_utf8
len_utf8(c) == IF c = Wide THEN 2 ELSE 1

\* The byte offset of the character with index k (from 0); str::len for k = Len(s).
RECURSIVE ByteOff(_, _)
ByteOff(s, k) == IF k = 0 THEN 0 ELSE ByteOff(s, k - 1) + len_utf8(s[k])
StrLen(s) == ByteOff(s, Len(s))
CharBoundaries(s) == {ByteOff(s, k) : k \in 0..Len(s)}
CharAt(s, off) == CHOOSE k \in 0..Len(s) : ByteOff(s, k) = off

\* &s[a..b] for two character boundaries a <= b
Slice(s, a, b) == SubSeq(s, CharAt(s, a) + 1, CharAt(s, b))

\* util::spaces(n): a str of n spaces
spaces(n) == [i \in 1..n |-> Space]

(***************************************************************************)
(* replace_tabs (highlight.rs 37-58).                                      *)
(***************************************************************************)
\* The loop of replace_tabs from character i on, with buf as built so far.
RECURSIVE replace_tabs_loop(_, _, _, _)
replace_tabs_loop(s, i, buf, tab) ==
    IF i > Len(s) THEN buf
    ELSE LET c == s[i]
             next == IF buf = <<>>
                     THEN IF c = Tab THEN SubSeq(s, 1, i - 1) \o tab ELSE buf
                     ELSE IF c = Tab THEN buf \o tab
                     ELSE Append(buf, c)
         IN replace_tabs_loop(s, i + 1, next, tab)

replace_tabs(s, tab_len) ==
    LET buf == replace_tabs_loop(s, 1, <<>>, spaces(tab_len))
    IN IF buf = <<>> THEN s ELSE buf

\* One call of replace_tabs on the arguments Init drew.
ReplaceTabs ==
    /\ rt.pc = "call"
    /\ rt' = [rt EXCEPT !.pc = "done", !.res = replace_tabs(rt.s, rt.tab_len)]
    /\ UNCHANGED <<rdrVars, overflow_checks, panicked, vpVars, nstVars, concVars, hlVars>>

(***************************************************************************)
(* LineHighlighter (highlight.rs 7-35, 60-170).                            *)
(***************************************************************************)
DefaultStyle == "default"   \* Style::default()
LineStyle == "line"         \* the style handed to cursor_line
CursorStyle == "cursor"     \* the cursor_style handed to new
MatchStyle == "match"       \* the style handed to search

\* Boundary::Cursor(s), Boundary::Search(s) and Boundary::End, each with its offset
Boundary(kind, style, at) == [kind |-> kind, style |-> style, at |-> at]

\* A rank that puts a search match above the cursor.
rank_search_over_cursor(b) ==
    CASE b.kind = "Cursor" -> 1
      [] b.kind = "Search" -> 2
      [] OTHER -> 0

\* Boundary::cmp::rank
rank(b) ==
    CASE b.kind = "Cursor" -> 2
      [] b.kind = "Search" -> 1
      [] OTHER -> 0

\* The comparison into_spans sorts by: the offset, then Boundary::cmp; TRUE for l <= r
boundary_le(l, r) ==
    IF l.at = r.at THEN rank(l) <= rank(r) ELSE l.at < r.at

\* boundaries.sort_unstable_by(..): two boundaries that compare equal have the same
\* offset and kind, and with one cursor and one match style they are the same value,
\* so the sorted vector is the same whatever the sort does with equal elements.
RECURSIVE insert_sorted(_, _)
insert_sorted(b, bs) ==
    IF bs = <<>> THEN <<b>>
    ELSE IF boundary_le(b, Head(bs)) THEN <<b>> \o bs
    ELSE <<Head(bs)>> \o insert_sorted(b, Tail(bs))

RECURSIVE sort_boundaries(_)
sort_boundaries(bs) ==
    IF bs = <<>> THEN <<>>
    ELSE insert_sorted(Head(bs), sort_boundaries(Tail(bs)))

\* Span::styled(replace_tabs(&line[from..to], tab_len), style), with the slice it is of
TextSpan(line, tab_len, from, to, style) ==
    [kind |-> "text", from |-> from, to |-> to, style |-> style,
     raw |-> Slice(line, from, to),
     content |-> replace_tabs(Slice(line, from, to), tab_len)]

\* Span::styled(" ", cursor_style)
CursorSpace == [kind |-> "space", from |-> 0, to |-> 0, style |-> CursorStyle,
                raw |-> <<>>, content |-> <<Space>>]

\* A fast path that forgets the cursor at the end of the line.
fast_path_without_cursor(h) ==
    <<TextSpan(h.line, h.tab_len, 0, StrLen(h.line), h.style_begin)>>

\* into_spans with no boundaries (125-131)
fast_path(h) ==
    <<TextSpan(h.line, h.tab_len, 0, StrLen(h.line), h.style_begin)>>
    \o (IF h.cursor_at_end THEN <<CursorSpace>> ELSE <<>>)

\* An end of the sweep that drops the rest of the line.
sweep_end_without_rest(h, start, style) ==
    IF h.cursor_at_end THEN <<CursorSpace>> ELSE <<>>

\* into_spans after the last boundary (160-166)
sweep_end(h, start, style) ==
    (IF start # StrLen(h.line)
     THEN <<TextSpan(h.line, h.tab_len, start, StrLen(h.line), style)>>
     ELSE <<>>)
    \o (IF h.cursor_at_end THEN <<CursorSpace>> ELSE <<>>)

\* A style update whose End pops and goes back to style_begin whatever it popped.
next_style_reset(h, next_boundary, style, stack) ==
    IF next_boundary.kind # "End"
    THEN [style |-> next_boundary.style, stack |-> Append(stack, style), fallback |-> FALSE]
    ELSE [style |-> h.style_begin, stack |-> SubSeq(stack, 1, Len(stack) - 1),
          fallback |-> stack = <<>>]

\* A style update whose End reads the top of the stack and leaves it there.
next_style_peek(h, next_boundary, style, stack) ==
    IF next_boundary.kind # "End"
    THEN [style |-> next_boundary.style, stack |-> Append(stack, style), fallback |-> FALSE]
    ELSE IF stack = <<>>
         THEN [style |-> h.style_begin, stack |-> stack, fallback |-> TRUE]
         ELSE [style |-> stack[Len(stack)], stack |-> stack, fallback |-> FALSE]

\* The style update at a boundary (152-157): a Cursor or Search pushes the current
\* style and takes its own; an End pops, or takes style_begin when the stack is
\* empty (unwrap_or), which fallback records.
next_style(h, next_boundary, style, stack) ==
    IF next_boundary.kind # "End"
    THEN [style |-> next_boundary.style, stack |-> Append(stack, style), fallback |-> FALSE]
    ELSE IF stack = <<>>
         THEN [style |-> h.style_begin, stack |-> stack, fallback |-> TRUE]
         ELSE [style |-> stack[Len(stack)], stack |-> SubSeq(stack, 1, Len(stack) - 1),
               fallback |-> FALSE]

\* The loop of into_spans (143-168) from boundary i of the sorted bs on.
RECURSIVE sweep(_, _, _, _, _, _)
sweep(h, bs, i, style, start, stack) ==
    IF i <= Len(bs)
    THEN LET next_boundary == bs[i]
             end == bs[i].at
             emitted == IF start < end
                        THEN <<TextSpan(h.line, h.tab_len, start, end, style)>>
                        ELSE <<>>
             nx == next_style(h, next_boundary, style, stack)
         IN emitted \o sweep(h, bs, i + 1, nx.style, end, nx.stack)
    ELSE sweep_end(h, start, style)

\* The loop's style and stack after each boundary of the sorted bs, from boundary i on.
RECURSIVE sweep_styles(_, _, _, _, _)
sweep_styles(h, bs, i, style, stack) ==
    IF i <= Len(bs)
    THEN LET nx == next_style(h, bs[i], style, stack)
         IN <<nx>> \o sweep_styles(h, bs, i + 1, nx.style, nx.stack)
    ELSE <<>>

\* LineHighlighter::into_spans: the spans of the Line it returns
into_spans(h) ==
    h.spans \o
    (IF h.boundaries = <<>>
     THEN fast_path(h)
     ELSE sweep(h, sort_boundaries(h.boundaries), 1, h.style_begin, 0, <<>>))

\* into_spans's style and stack after each boundary; the fast path runs no loop.
style_run(h) ==
    IF h.boundaries = <<>>
    THEN <<>>
    ELSE sweep_styles(h, sort_boundaries(h.boundaries), 1, h.style_begin, <<>>)

\* search's loop over its matches, from match i on
RECURSIVE search_push(_, _, _, _)
search_push(bs, matches, i, style) ==
    IF i > Len(matches) THEN bs
    ELSE LET start == matches[i][1]
             end == matches[i][2]
         IN search_push(IF start # end
                        THEN bs \o <<Boundary("Search", style, start),
                                     Boundary("End", "none", end)>>
                        ELSE bs,
                        matches, i + 1, style)

\* LineHighlighter::cursor_line(cursor_col, style)
CursorLine(cursor_col) ==
    /\ hl_pc = "new"
    /\ hl_calls.cursor = -1
    /\ hl' = IF cursor_col < Len(hl.line)
             THEN LET start == ByteOff(hl.line, cursor_col)
                      c == hl.line[cursor_col + 1]
                  IN [hl EXCEPT !.boundaries =
                                    @ \o <<Boundary("Cursor", CursorStyle, start),
                                           Boundary("End", "none", start + len_utf8(c))>>,
                                !.style_begin = LineStyle]
             ELSE [hl EXCEPT !.cursor_at_end = TRUE, !.style_begin = LineStyle]
    /\ hl_calls' = [hl_calls EXCEPT !.cursor = cursor_col]
    /\ UNCHANGED <<rdrVars, overflow_checks, panicked, vpVars, nstVars, concVars, tabVars,
                   hl_pc, out, hl_run>>

\* LineHighlighter::search(matches, style)
Search(matches) ==
    /\ hl_pc = "new"
    /\ ~hl_calls.searched
    /\ hl' = [hl EXCEPT !.boundaries = search_push(@, matches, 1, MatchStyle)]
    /\ hl_calls' = [hl_calls EXCEPT !.searched = TRUE, !.matches = matches]
    /\ UNCHANGED <<rdrVars, overflow_checks, panicked, vpVars, nstVars, concVars, tabVars,
                   hl_pc, out, hl_run>>

\* LineHighlighter::into_spans
IntoSpans ==
    /\ hl_pc = "new"
    /\ out' = into_spans(hl)
    /\ hl_run' = style_run(hl)
    /\ hl_pc' = "built"
    /\ UNCHANGED <<rdrVars, overflow_checks, panicked, vpVars, nstVars, concVars, tabVars,
                   hl, hl_calls>>

\* The byte ranges of a line handed to search: both ends on character boundaries,
\* start < end, and the zero-width range at offset 0.
Ranges(line) ==
    {r \in CharBoundaries(line) \X CharBoundaries(line) : r[1] < r[2]} \cup {<<0, 0>>}

\* The matches of one search call: up to MaxMatches ranges, as a scan from the left
\* yields them.
MatchSeqs(line) ==
    {ms \in UNION {[1..n -> Ranges(line)] : n \in 0..MaxMatches} :
        \A i \in 1..(Len(ms) - 1) :
            \/ ms[i][1] < ms[i + 1][1]
            \/ ms[i][1] = ms[i + 1][1] /\ ms[i][2] < ms[i + 1][2]}

(***************************************************************************)
(* Line numbers (highlight.rs 83-87, widget.rs 202-204, 225-229).          *)
(***************************************************************************)
NumStyle == "lnum"          \* the line_number_style

\* util::num_digits: the number of decimal digits of i
RECURSIVE num_digits(_)
num_digits(i) == IF i < 10 THEN 1 ELSE 1 + num_digits(i \div 10)

Digits == <<"0", "1", "2", "3", "4", "5", "6", "7", "8", "9">>

\* format!("{}", n) of an unsigned n: its decimal digits
RECURSIVE Decimal(_)
Decimal(n) ==
    IF n < 10 THEN <<Digits[n + 1]>> ELSE Decimal(n \div 10) \o <<Digits[(n % 10) + 1]>>

\* A format that pads the number on its right.
format_lnum_left(lnum_len, n) ==
    Decimal(n) \o spaces(Max(lnum_len - Len(Decimal(n)), 0)) \o <<Space>>

\* format!("{:lnum_len$} ", n): a number is right-aligned in a field of at least
\* lnum_len characters, and a space follows
format_lnum(lnum_len, n) ==
    spaces(Max(lnum_len - Len(Decimal(n)), 0)) \o Decimal(n) \o <<Space>>

\* The span line_number pushes: format!("{}{} ", pad, row + 1) with
\* pad = spaces(lnum_len - num_digits(row + 1) + 1)
lnum_span(row, lnum_len) ==
    LET pad == spaces(lnum_len - num_digits(row + 1) + 1)
    IN [kind |-> "lnum", style |-> NumStyle, content |-> pad \o Decimal(row + 1) \o <<Space>>]

(***************************************************************************)
(* Renderer::text (widget.rs 188-284).                                     *)
(***************************************************************************)
\* A span of a buffer line as TextArea::text() holds it
StyledSpan(content) == [kind |-> "text", style |-> DefaultStyle, content |-> content]

\* The characters of a line of spans
RECURSIVE LineChars(_)
LineChars(spans) == IF spans = <<>> THEN 0 ELSE Len(Head(spans).content) + LineChars(Tail(spans))

\* One line of the block text() builds (224-235): the line-number span, when a
\* line-number style is set, and the line's own spans
block_line(t, lnum_len, row) ==
    IF t.num_style
    THEN <<[kind |-> "lnum", style |-> NumStyle, content |-> format_lnum(lnum_len, row + 1)]>>
         \o t.line
    ELSE t.line

\* The loop over the spans of the cursor's row (253-262) from span k on, with i the
\* bytes of the spans before it: the index of the first span at whose end the byte
\* count has reached col, or 0 when the spans run out.
RECURSIVE target_span(_, _, _, _)
target_span(spans, k, i, col) ==
    IF k > Len(spans) THEN 0
    ELSE IF i + StrLen(spans[k].content) >= col THEN k
    ELSE target_span(spans, k + 1, i + StrLen(spans[k].content), col)

\* What text() returns, or the panic that ends it
TextOk(block, col, roi, patched) ==
    [ok |-> TRUE, at |-> "none", block |-> block, col |-> col, roi |-> roi, patched |-> patched]
TextPanic(at) ==
    [ok |-> FALSE, at |-> at, block |-> <<>>, col |-> 0, roi |-> 0, patched |-> <<>>]
NoText == TextPanic("none")

\* Renderer::text(top_row, height) on the TextArea t. Every line of the buffer has the
\* spans t.line. cursor.0 - top_row is a usize subtraction: below zero it panics with
\* overflow checks and wraps to 2^64 - k without, which clamp brings to lines_len - 1.
text(t, top_row, height) ==
    LET lines_len == t.lines_len
        lnum_len == num_digits(lines_len)
        col == t.cursor[2] + lnum_len + 1
        bottom_row == Min(top_row + height, lines_len)
        slice_end == Min(bottom_row, lines_len)
        block == [i \in 1..(slice_end - top_row) |-> block_line(t, lnum_len, top_row + i - 1)]
        wraps == t.cursor[1] < top_row
        roi == IF wraps THEN lines_len - 1 ELSE Min(t.cursor[1] - top_row, lines_len - 1)
    IN IF top_row > slice_end THEN TextPanic("slice")
       ELSE IF wraps /\ overflow_checks THEN TextPanic("subtract")
       ELSE IF block = <<>> THEN TextOk(block, col, roi, <<>>)
       ELSE IF roi = Len(block) THEN TextOk(block, col, roi, <<>>)
       ELSE IF roi > Len(block) THEN TextPanic("index")
       ELSE LET j == target_span(block[roi + 1], 1, 0, col)
            IN IF j = 0 THEN TextOk(block, col, roi, <<>>)
               ELSE TextOk([block EXCEPT ![roi + 1][j].style = CursorStyle], col, roi,
                           <<roi + 1, j>>)

\* One call of Renderer::text on the TextArea and the arguments Init drew.
TextCall ==
    /\ tx.pc = "call"
    /\ tx' = [tx EXCEPT !.pc = "done", !.res = text(ta, tx.top_row, tx.height)]
    /\ UNCHANGED <<overflow_checks, panicked, vpVars, nstVars, concVars, tabVars, hlVars,
                   ta, rn>>

\* LineHighlighter::line_number(row, lnum_len, style) on a new highlighter
LineNumber(row, lnum_len) ==
    /\ hl_pc = "new"
    /\ tx.lnum = <<>>
    /\ hl' = [hl EXCEPT !.spans = Append(@, lnum_span(row, lnum_len))]
    /\ tx' = [tx EXCEPT !.lnum = <<row, lnum_len>>]
    /\ UNCHANGED <<overflow_checks, panicked, vpVars, nstVars, concVars, tabVars,
                   hl_pc, hl_calls, out, hl_run, ta, rn>>

(***************************************************************************)
(* Renderer::render (widget.rs 288-325).                                   *)
(***************************************************************************)
NoRender == [kind |-> "none", area |-> <<0, 0>>, cursor |-> <<0, 0>>, before |-> NoRect,
             top_row |-> Ok(0), top_col |-> Ok(0), text |-> NoText, done |-> FALSE]

\* Renderer::render on an area whose inner rectangle is width x height: the two
\* tops, the text of the block, and the store. A panic on the way leaves the
\* Viewport as it was.
Render(width, height) ==
    /\ ~panicked
    /\ nops < MaxOps
    /\ LET cursor == ta.cursor
           st == scroll_top(vp)
           top_row == next_scroll_top(st[1], cursor[1] % (U16Max + 1), height)
           top_col == IF top_row.ok
                      THEN next_scroll_top(st[2], cursor[2] % (U16Max + 1), width)
                      ELSE Panic
           txt == IF top_col.ok THEN text(ta, top_row.val, height) ELSE NoText
           done == top_row.ok /\ top_col.ok /\ txt.ok
       IN /\ vp' = IF done THEN pack(top_row.val, top_col.val, width, height) ELSE vp
          /\ panicked' = ~done
          /\ rn' = [cur |-> [kind |-> "render", area |-> <<width, height>>, cursor |-> cursor,
                             before |-> rect(vp), top_row |-> top_row, top_col |-> top_col,
                             text |-> txt, done |-> done],
                    prev |-> IF op.name = "render" THEN rn.cur ELSE NoRender]
          /\ op' = [name |-> "render", args |-> <<width, height>>, before |-> rect(vp)]
    /\ nops' = nops + 1
    /\ UNCHANGED <<overflow_checks, nstVars, concVars, tabVars, hlVars, ta, tx>>

\* A cursor move of the TextArea, to a row of the buffer and a column of its line or
\* the line's end.
MoveCursor(row, col) ==
    /\ ~panicked
    /\ row < ta.lines_len
    /\ col <= LineChars(ta.line)
    /\ <<row, col>> # ta.cursor
    /\ ta' = [ta EXCEPT !.cursor = <<row, col>>]
    /\ UNCHANGED <<overflow_checks, panicked, vpVars, nstVars, concVars, tabVars, hlVars,
                   rn, tx>>

(***************************************************************************)
(* Initial values of each part.                                            *)
(***************************************************************************)
InitVP == /\ vp = <<0, 0, 0, 0>>      \* #[derive(Default)]: AtomicU64::new(0)
          /\ op = NoOp
          /\ nops = 0
InitNSTIdle == nst = [pc |-> "idle", prev_top |-> 0, cursor |-> 0, length |-> 0, res |-> Ok(0)]
InitConcIdle == /\ written = {<<0, 0, 0, 0>>}
                /\ frames = 0
                /\ rd_pc = [t \in 1..NumReaders |-> "idle"]
                /\ rd_u = [t \in 1..NumReaders |-> <<0, 0, 0, 0>>]
                /\ rd_res = [t \in 1..NumReaders |-> [kind |-> "none", val |-> <<>>]]
InitTabsIdle == rt = [pc |-> "idle", s |-> <<>>, tab_len |-> 0, res |-> <<>>]
\* LineHighlighter::new(line, cursor_style, tab_len)
new(line, tab_len) ==
    [line |-> line, spans |-> <<>>, boundaries |-> <<>>, style_begin |-> DefaultStyle,
     cursor_at_end |-> FALSE, tab_len |-> tab_len]
NoCalls == [cursor |-> -1, searched |-> FALSE, matches |-> <<>>]
InitHLIdle == /\ hl = new(<<>>, 0)
              /\ hl_pc = "idle"
              /\ hl_calls = NoCalls
              /\ out = <<>>
              /\ hl_run = <<>>

InitRdrIdle == /\ ta = [lines_len |-> 1, line |-> <<>>, num_style |-> FALSE, cursor |-> <<0, 0>>]
               /\ rn = [cur |-> NoRender, prev |-> NoRender]
               /\ tx = [pc |-> "idle", top_row |-> 0, height |-> 0, res |-> NoText, lnum |-> <<>>]

(***************************************************************************)
(* SpecVP: the Viewport object under store and scroll.                     *)
(***************************************************************************)
Init ==
    /\ overflow_checks \in BOOLEAN
    /\ panicked = FALSE
    /\ InitRdrIdle
    /\ InitVP /\ InitNSTIdle /\ InitConcIdle /\ InitTabsIdle /\ InitHLIdle

Next ==
    \/ \E row, col, width, height \in U16Sample : Store(row, col, width, height)
    \/ \E rows, cols \in I16Sample : Scroll(rows, cols)

SpecVP == Init /\ [][Next]_vars

(***************************************************************************)
(* SpecNST: next_scroll_top on every triple of sampled arguments.          *)
(***************************************************************************)
InitNST ==
    /\ overflow_checks \in BOOLEAN
    /\ panicked = FALSE
    /\ InitRdrIdle
    /\ nst \in [pc : {"call"}, prev_top : NstSample, cursor : NstSample,
                length : NstSample, res : {Ok(0)}]
    /\ InitVP /\ InitConcIdle /\ InitTabsIdle /\ InitHLIdle

NextNST == NextScrollTop

SpecNST == InitNST /\ [][NextNST]_vars

(***************************************************************************)
(* SpecConc: the render pass stores while readers read.                    *)
(***************************************************************************)
InitConc ==
    /\ overflow_checks \in BOOLEAN
    /\ panicked = FALSE
    /\ InitRdrIdle
    /\ InitVP /\ InitNSTIdle /\ InitConcIdle /\ InitTabsIdle /\ InitHLIdle

NextConc ==
    \/ \E q \in ConcQuads : StoreFrame(q)
    \/ \E t \in 1..NumReaders, m \in Methods : ReaderLoad(t, m)
    \/ \E t \in 1..NumReaders : ReaderReturn(t)

SpecConc == InitConc /\ [][NextConc]_vars

(***************************************************************************)
(* SpecTabs: replace_tabs on every sampled slice and tab width.            *)
(***************************************************************************)
InitTabs ==
    /\ overflow_checks = FALSE
    /\ panicked = FALSE
    /\ InitRdrIdle
    /\ rt \in [pc : {"call"}, s : Strs(MaxLen), tab_len : TabLens, res : {<<>>}]
    /\ InitVP /\ InitNSTIdle /\ InitConcIdle /\ InitHLIdle

NextTabs == ReplaceTabs

SpecTabs == InitTabs /\ [][NextTabs]_vars

(***************************************************************************)
(* SpecHL: one LineHighlighter from new to into_spans.                     *)
(***************************************************************************)
HLTabs == {4}

InitHL ==
    /\ overflow_checks = FALSE
    /\ panicked = FALSE
    /\ InitRdrIdle
    /\ \E line \in Strs(MaxLen), tab_len \in HLTabs : hl = new(line, tab_len)
    /\ hl_pc = "new"
    /\ hl_calls = NoCalls
    /\ out = <<>>
    /\ hl_run = <<>>
    /\ InitVP /\ InitNSTIdle /\ InitConcIdle /\ InitTabsIdle

NextHL ==
    \/ \E cursor_col \in 0..MaxLen : CursorLine(cursor_col)
    \/ /\ hl_pc = "new" /\ ~hl_calls.searched
       /\ \E matches \in MatchSeqs(hl.line) : Search(matches)
    \/ IntoSpans

SpecHL == InitHL /\ [][NextHL]_vars

(***************************************************************************)
(* SpecText: Renderer::text on a buffer of equal lines, called as render   *)
(* calls it, with the cursor's row inside the area; and line_number.       *)
(***************************************************************************)
LineCounts == {1, 9, 10, 100}
RowSample(n) == {0, 8, 9, n - 1} \cap (0..(n - 1))
SpanTexts == {<<"a">>, <<Wide>>, <<"a", "a">>}
LineShapes == UNION {[1..k -> {StyledSpan(c) : c \in SpanTexts}] : k \in 1..MaxSpans}

InitText ==
    /\ overflow_checks = FALSE
    /\ panicked = FALSE
    /\ \E n \in LineCounts, line \in LineShapes, ns \in BOOLEAN :
          \E row \in RowSample(n), col \in 0..LineChars(line) :
              ta = [lines_len |-> n, line |-> line, num_style |-> ns, cursor |-> <<row, col>>]
    /\ \E height \in 1..MaxHeight :
          \E top_row \in Max(0, ta.cursor[1] - height + 1)..ta.cursor[1] :
              tx = [pc |-> "call", top_row |-> top_row, height |-> height, res |-> NoText,
                    lnum |-> <<>>]
    /\ rn = [cur |-> NoRender, prev |-> NoRender]
    /\ hl = new(<<>>, 4)
    /\ hl_pc = "new"
    /\ hl_calls = NoCalls
    /\ out = <<>>
    /\ hl_run = <<>>
    /\ InitVP /\ InitNSTIdle /\ InitConcIdle /\ InitTabsIdle

NextText ==
    \/ TextCall
    \/ \E row \in RowSample(ta.lines_len) : LineNumber(row, num_digits(ta.lines_len))

SpecText == InitText /\ [][NextText]_vars

(***************************************************************************)
(* SpecRender: renders of a TextArea between scroll() calls and cursor     *)
(* moves. The Viewport starts with no frame stored and its tops where      *)
(* earlier scroll() calls have left them.                                  *)
(***************************************************************************)
RenderLines == {1, 3}
ScrollSample == {-1, 0, 1}

InitRender ==
    /\ overflow_checks \in BOOLEAN
    /\ panicked = FALSE
    /\ \E n \in RenderLines :
          ta = [lines_len |-> n, line |-> <<StyledSpan(<<"a", "a">>)>>, num_style |-> FALSE,
                cursor |-> <<0, 0>>]
    /\ rn = [cur |-> NoRender, prev |-> NoRender]
    /\ tx = [pc |-> "idle", top_row |-> 0, height |-> 0, res |-> NoText, lnum |-> <<>>]
    /\ \E row, col \in 0..EdgeWidth : vp = pack(row, col, 0, 0)
    /\ op = NoOp
    /\ nops = 0
    /\ InitNSTIdle /\ InitConcIdle /\ InitTabsIdle /\ InitHLIdle

NextRender ==
    \/ \E width, height \in U16Sample : Render(width, height)
    \/ \E rows, cols \in ScrollSample : Scroll(rows, cols)
    \/ \E row \in 0..MaxLen, col \in 0..MaxLen : MoveCursor(row, col)

SpecRender == InitRender /\ [][NextRender]_vars

(***************************************************************************)
(* The Viewport's claims.                                                  *)
(***************************************************************************)
Abs(x) == IF x < 0 THEN -x ELSE x

\* C3: with visible_length >= 1 and prev_top + visible_length and cursor_pos + 1
\* representable in 16 bits, next_scroll_top returns a top t that shows the cursor,
\* t <= cursor_pos < t + visible_length, no top that shows the cursor is closer to
\* prev_top than t, and t = prev_top when prev_top already shows the cursor.
\* (A top that shows the cursor is at most cursor_pos, so 0..cursor_pos holds them all.)
MinimalMotion ==
    (/\ nst.pc = "done"
     /\ nst.length >= 1
     /\ nst.prev_top + nst.length <= U16Max
     /\ nst.cursor + 1 <= U16Max)
    => /\ nst.res.ok
       /\ LET t == nst.res.val
          IN /\ t <= nst.cursor
             /\ nst.cursor < t + nst.length
             /\ \A t2 \in 0..nst.cursor :
                    nst.cursor < t2 + nst.length
                    => Abs(t - nst.prev_top) <= Abs(t2 - nst.prev_top)
             /\ (nst.prev_top <= nst.cursor /\ nst.cursor < nst.prev_top + nst.length
                 => t = nst.prev_top)

\* C3's case: the cursor below the window, which has to scroll forward (5, 20, 10).
MinimalMotionWitness ==
    /\ nst.pc = "done"
    /\ nst.prev_top = 5 /\ nst.length = 10 /\ nst.cursor = 20
    /\ nst.res = Ok(11)

\* C4: for all 16-bit arguments next_scroll_top returns the exact value of the
\* three-way case split, without overflow, and the value is a 16-bit number.
ScrollTopExact ==
    nst.pc = "done"
    => /\ nst.res.ok
       /\ nst.res.val =
             (IF nst.cursor < nst.prev_top THEN nst.cursor
              ELSE IF nst.cursor >= nst.prev_top + nst.length
                   THEN nst.cursor + 1 - nst.length
              ELSE nst.prev_top)
       /\ nst.res.val \in 0..U16Max

\* C5: after store(r, c, w, h), rect() returns (r, c, w, h) and scroll_top() (r, c).
StoreRectRoundTrip ==
    op.name = "store"
    => /\ rect(vp) = op.args
       /\ scroll_top(vp) = <<op.args[1], op.args[2]>>

\* C5's case: a store of four fields that differ from their neighbours in the word.
StoreRectRoundTripWitness ==
    /\ op.name = "store"
    /\ op.args = <<1, U16Max, 0, U16Max>>
    /\ rect(vp) = <<1, U16Max, 0, U16Max>>

\* C6: every value a reader's rect(), scroll_top() or position() returns is that of
\* one quadruple a store wrote, or of the initial all-zero word.
NoTornReads ==
    \A t \in 1..NumReaders :
        rd_res[t].kind # "none"
        => \E q \in written :
              rd_res[t].val = CASE rd_res[t].kind = "rect" -> q
                                [] rd_res[t].kind = "scroll_top" -> <<q[1], q[2]>>
                                [] OTHER -> position_of(q)

\* C6's case: a reader returns a stale rect while a later store is already in place.
NoTornReadsWitness ==
    \E t \in 1..NumReaders :
        /\ rd_res[t].kind = "rect"
        /\ rd_res[t].val \in written
        /\ rd_res[t].val # NoRect
        /\ rect(vp) # rd_res[t].val

\* C9: position() returns (row, col, row_bottom, col_bottom) with bottom = top +
\* length - 1 when length >= 1 and that is at most 65535, bottom = top when length
\* is 0, and bottom >= top always.
PositionBottoms ==
    op.name = "store"
    => LET r == rect(vp)
           p == position(vp)
       IN /\ p[1] = r[1] /\ p[2] = r[2]
          /\ (r[4] >= 1 /\ r[1] + r[4] - 1 <= U16Max => p[3] = r[1] + r[4] - 1)
          /\ (r[3] >= 1 /\ r[2] + r[3] - 1 <= U16Max => p[4] = r[2] + r[3] - 1)
          /\ (r[4] = 0 => p[3] = r[1])
          /\ (r[3] = 0 => p[4] = r[2])
          /\ p[3] >= r[1] /\ p[4] >= r[2]

\* C10: scroll(dr, dc) completes without overflow and sets the top row to
\* max(0, row + dr) and the top column to max(0, col + dc), limited only by 65535.
ScrollSaturates ==
    op.name = "scroll"
    => /\ ~panicked
       /\ rect(vp)[1] = Min(U16Max, Max(0, op.before[1] + op.args[1]))
       /\ rect(vp)[2] = Min(U16Max, Max(0, op.before[2] + op.args[2]))

\* C18: scroll(dr, dc) leaves the stored width and height as they were, for every
\* stored state and every pair of deltas; a scroll that panics writes nothing.
ScrollKeepsSize ==
    op.name = "scroll"
    => /\ rect(vp)[3] = op.before[3]
       /\ rect(vp)[4] = op.before[4]

\* C18's case: a scroll that moves both tops of a state whose width and height are
\* both set, and differ.
ScrollKeepsSizeWitness ==
    /\ op.name = "scroll"
    /\ ~panicked
    /\ op.before = <<0, 0, 1, U16Max>>
    /\ rect(vp) = <<1, 1, 1, U16Max>>

(***************************************************************************)
(* The highlighter's claims.                                               *)
(***************************************************************************)
\* The spans into_spans built from the line, in order.
TextSpans == SelectSeq(out, LAMBDA sp : sp.kind = "text")
SpaceSpans == SelectSeq(out, LAMBDA sp : sp.kind = "space")

RECURSIVE ConcatRaw(_)
ConcatRaw(ts) == IF ts = <<>> THEN <<>> ELSE Head(ts).raw \o ConcatRaw(Tail(ts))

CursorInLine == hl_calls.cursor >= 0 /\ hl_calls.cursor < Len(hl.line)
CursorAtEnd == hl_calls.cursor >= Len(hl.line)
CursorFrom == ByteOff(hl.line, hl_calls.cursor)
CursorTo == CursorFrom + len_utf8(hl.line[hl_calls.cursor + 1])

\* C1: for any line, cursor column and non-empty in-bounds search ranges (byte ranges
\* of the str, so with their ends on character boundaries), the slices into_spans
\* builds its text spans from start at 0, follow each other without gap or overlap
\* and end at the line's length, and their concatenation is the line.
Coverage ==
    hl_pc = "built"
    => LET ts == TextSpans
       IN /\ Len(ts) >= 1
          /\ ts[1].from = 0
          /\ ts[Len(ts)].to = StrLen(hl.line)
          /\ \A i \in 1..Len(ts) :
                /\ ts[i].from <= ts[i].to
                /\ (hl.line # <<>> => ts[i].from < ts[i].to)
          /\ \A i \in 1..(Len(ts) - 1) : ts[i].to = ts[i + 1].from
          /\ ConcatRaw(ts) = hl.line

\* C1's case: a cursor inside the line and two matches that cross each other.
CoverageWitness ==
    /\ hl_pc = "built"
    /\ CursorInLine
    /\ Len(hl_calls.matches) = 2
    /\ hl_calls.matches[1][1] < hl_calls.matches[2][1]
    /\ hl_calls.matches[2][1] < hl_calls.matches[1][2]
    /\ hl_calls.matches[1][2] < hl_calls.matches[2][2]
    /\ Len(TextSpans) >= 3
    /\ ConcatRaw(TextSpans) = hl.line

\* C2: with the cursor on a character of the line, every byte of that character is
\* emitted in the cursor style, whatever matches cover, start at or end at it, and no
\* other byte of the line is.
CursorPriority ==
    (hl_pc = "built" /\ CursorInLine)
    => LET ts == TextSpans
       IN /\ \A b \in CursorFrom..(CursorTo - 1) :
                \E i \in 1..Len(ts) :
                    ts[i].from <= b /\ b < ts[i].to /\ ts[i].style = CursorStyle
          /\ \A i \in 1..Len(ts) :
                ts[i].style = CursorStyle
                => CursorFrom <= ts[i].from /\ ts[i].to <= CursorTo

\* C2's case: the cursor on a two-byte character that one match starts at and
\* another, begun before it, ends at.
CursorPriorityWitness ==
    /\ hl_pc = "built"
    /\ CursorInLine
    /\ hl.line[hl_calls.cursor + 1] = Wide
    /\ \E i, j \in 1..Len(hl_calls.matches) :
          /\ hl_calls.matches[i][1] < CursorFrom
          /\ hl_calls.matches[i][2] = CursorTo
          /\ hl_calls.matches[j][1] = CursorFrom
          /\ hl_calls.matches[j][2] > CursorTo
    /\ \E i \in 1..Len(TextSpans) :
          /\ TextSpans[i].from = CursorFrom
          /\ TextSpans[i].to = CursorTo
          /\ TextSpans[i].style = CursorStyle

\* C8: with the cursor column at or past the line's character count, cursor_line adds
\* no boundary, every byte of the line is emitted in a style other than the cursor's,
\* and into_spans ends with exactly one " " span in the cursor style, on the fast
\* path and on the general path; with the column inside the line there is no such span.
CursorAtEndOfLine ==
    (hl_pc = "built" /\ hl_calls.cursor >= 0)
    => /\ CursorAtEnd
          => /\ \A i \in 1..Len(hl.boundaries) : hl.boundaries[i].kind # "Cursor"
             /\ hl.cursor_at_end
             /\ \A i \in 1..Len(TextSpans) : TextSpans[i].style # CursorStyle
             /\ \A b \in 0..(StrLen(hl.line) - 1) :
                   \E i \in 1..Len(TextSpans) :
                       TextSpans[i].from <= b /\ b < TextSpans[i].to
             /\ Len(SpaceSpans) = 1
             /\ out[Len(out)] = CursorSpace
       /\ CursorInLine => SpaceSpans = <<>>

\* C8's case: the general path, a cursor at the end of a line that has a match.
CursorAtEndOfLineWitness ==
    /\ hl_pc = "built"
    /\ hl_calls.cursor = Len(hl.line)
    /\ hl.boundaries # <<>>
    /\ Len(out) >= 3
    /\ out[Len(out)] = CursorSpace

\* C8's other case: the fast path, a cursor past the end of a line with no match.
CursorAtEndFastPath ==
    /\ hl_pc = "built"
    /\ hl_calls.cursor > Len(hl.line)
    /\ hl.boundaries = <<>>
    /\ Len(out) = 2
    /\ out[2] = CursorSpace

\* s with every tab replaced by n spaces and every other character kept.
RECURSIVE ExpandTabs(_, _)
ExpandTabs(s, n) ==
    IF s = <<>> THEN <<>>
    ELSE (IF Head(s) = Tab THEN [i \in 1..n |-> Space] ELSE <<Head(s)>>)
         \o ExpandTabs(Tail(s), n)

TabCount(s) == Cardinality({i \in 1..Len(s) : s[i] = Tab})

\* C7: replace_tabs returns the slice with each tab replaced by exactly tab_width
\* spaces and every other character kept in order, for every tab width from 0 on;
\* the output has len + tabs * (tab_width - 1) characters.
TabsExpanded ==
    rt.pc = "done"
    => /\ rt.res = ExpandTabs(rt.s, rt.tab_len)
       /\ Len(rt.res) = Len(rt.s) + TabCount(rt.s) * (rt.tab_len - 1)

\* The search ranges of the call that are not dropped (start # end).
KeptMatches == SelectSeq(hl_calls.matches, LAMBDA r : r[1] # r[2])

\* C14: with the requests of cursor_line and search, every range inside the line and
\* with start < end (a zero-width range is dropped), every End finds a non-empty
\* stack, so the style_begin fallback is never taken; after the last boundary the
\* stack is empty and the current style is the base style.
BalancedStack ==
    hl_pc = "built"
    => /\ \A k \in 1..Len(hl_run) : ~hl_run[k].fallback
       /\ (hl_run # <<>>
           => /\ hl_run[Len(hl_run)].stack = <<>>
              /\ hl_run[Len(hl_run)].style = hl.style_begin)

\* C14's case: two ranges that cross, with the cursor inside both, so that the stack
\* is three deep before the first End.
BalancedStackWitness ==
    /\ hl_pc = "built"
    /\ CursorInLine
    /\ Len(KeptMatches) = 2
    /\ \E k \in 1..Len(hl_run) : Len(hl_run[k].stack) = 3
    /\ hl_run[Len(hl_run)].stack = <<>>
    /\ hl_run[Len(hl_run)].style = LineStyle
\* Byte b of the line lies in one of the search ranges that were kept.
InMatch(b) == \E k \in 1..Len(KeptMatches) : KeptMatches[k][1] <= b /\ b < KeptMatches[k][2]

\* Byte b of the line is a byte of the character the cursor is on.
InCursor(b) == CursorInLine /\ CursorFrom <= b /\ b < CursorTo

\* C15: with one match style, whatever way the ranges overlap, nest, touch or cross
\* (zero-width ranges are dropped), every byte of the line outside the cursor's
\* character is emitted in the match style when at least one range covers it and in
\* the base style when none does.
MatchStyleCover ==
    hl_pc = "built"
    => \A b \in 0..(StrLen(hl.line) - 1) :
          ~InCursor(b)
          => /\ \E i \in 1..Len(TextSpans) : TextSpans[i].from <= b /\ b < TextSpans[i].to
             /\ \A i \in 1..Len(TextSpans) :
                   (TextSpans[i].from <= b /\ b < TextSpans[i].to)
                   => TextSpans[i].style = (IF InMatch(b) THEN MatchStyle ELSE hl.style_begin)

\* C15's case: one range nested in another that goes on after it, the cursor
\* elsewhere, so that the byte after the inner range is still in the match style
\* and a byte no range covers is in the base style.
MatchStyleCoverWitness ==
    /\ hl_pc = "built"
    /\ \E m, n \in 1..Len(KeptMatches) :
          /\ KeptMatches[m][1] <= KeptMatches[n][1]
          /\ KeptMatches[n][2] < KeptMatches[m][2]
          /\ ~InCursor(KeptMatches[n][2])
          /\ \E i \in 1..Len(TextSpans) :
                TextSpans[i].from = KeptMatches[n][2] /\ TextSpans[i].style = MatchStyle
    /\ \E b \in 0..(StrLen(hl.line) - 1) :
          /\ ~InCursor(b) /\ ~InMatch(b)
          /\ \E i \in 1..Len(TextSpans) :
                TextSpans[i].from <= b /\ b < TextSpans[i].to /\ TextSpans[i].style = hl.style_begin
(***************************************************************************)
(* The renderer's claims.                                                  *)
(***************************************************************************)
\* The index of the span of a line that holds the character at 0-based position c.
RECURSIVE SpanOfChar(_, _, _)
SpanOfChar(spans, k, c) ==
    IF k > Len(spans) THEN 0
    ELSE IF c < Len(spans[k].content) THEN k
    ELSE SpanOfChar(spans, k + 1, c - Len(spans[k].content))

\* The <<line, span>> positions of the block text() returned that are in the cursor style.
PatchedSpans ==
    {p \in UNION {{<<r, k>> : k \in 1..Len(tx.res.block[r])} : r \in 1..Len(tx.res.block)} :
        tx.res.block[p[1]][p[2]].style = CursorStyle}

\* C11: for every cursor column within the text of the cursor's row, with a
\* line-number style or without, text() patches exactly one span to the cursor
\* style: the span of the cursor row's composed line (the line-number span, if
\* there is one, and the line's spans) that holds the character at the cursor's
\* column, which is never the line-number span.
CursorSpanPatched ==
    (tx.pc = "done" /\ tx.res.ok /\ ta.cursor[2] < LineChars(ta.line))
    => LET r == ta.cursor[1] - tx.top_row + 1
           composed == tx.res.block[r]
           lnum_chars == IF ta.num_style THEN Len(composed[1].content) ELSE 0
           k == SpanOfChar(composed, 1, lnum_chars + ta.cursor[2])
       IN /\ PatchedSpans = {<<r, k>>}
          /\ composed[k].kind # "lnum"
\* The number a sequence of digit characters denotes.
RECURSIVE ParseDecimal(_)
ParseDecimal(ds) ==
    IF ds = <<>> THEN 0
    ELSE 10 * ParseDecimal(SubSeq(ds, 1, Len(ds) - 1))
         + (CHOOSE d \in 0..9 : Digits[d + 1] = ds[Len(ds)])

\* p is the number n right-aligned in a field of w characters, padded with spaces
\* on its left, and followed by exactly one space.
RightAligned(p, w, n) ==
    /\ Len(p) = w + 1
    /\ p[w + 1] = Space
    /\ \E k \in 0..(w - 1) :
          /\ \A i \in 1..k : p[i] = Space
          /\ \A i \in (k + 1)..w : \E d \in 0..9 : p[i] = Digits[d + 1]
          /\ p[k + 1] # "0"
          /\ ParseDecimal(SubSeq(p, k + 1, w)) = n

\* The line-number span of line r of the block text() returned.
BlockPrefix(r) == tx.res.block[r][1].content

RenderShowsCursor ==
    (op.name = "render" /\ rn.cur.done /\ rn.cur.area[1] >= 1 /\ rn.cur.area[2] >= 1)
    => LET r == rect(vp)
           cursor == rn.cur.cursor
       IN /\ r = <<rn.cur.top_row.val, rn.cur.top_col.val, rn.cur.area[1], rn.cur.area[2]>>
          /\ r[1] <= cursor[1] /\ cursor[1] < r[1] + r[4]
          /\ r[2] <= cursor[2] /\ cursor[2] < r[2] + r[3]
\* C16: for every prior Viewport state, cursor position and area size, two renders one
\* after the other with the same cursor and the same area store the same Viewport
\* state: next_scroll_top, fed its own result as prev_top, returns it again.
RenderStabilises ==
    (/\ op.name = "render"
     /\ rn.cur.done /\ rn.prev.done
     /\ rn.cur.cursor = rn.prev.cursor
     /\ rn.cur.area = rn.prev.area)
    => /\ rect(vp) = rn.cur.before
       /\ rn.cur.top_row.val = rn.prev.top_row.val
       /\ rn.cur.top_col.val = rn.prev.top_col.val

\* C17: for every Viewport state that scroll() and earlier renders reach, every area
\* size and every cursor with cursor_row < the line count, render calls text() with
\* top_row <= cursor_row, so cursor_row - top_row does not underflow; the slice starts
\* at or before its end, top_row <= min(top_row + height, total_lines); and the
\* cursor's row index is a valid index of the block, or the block is returned
\* unpatched: text() returns.
RenderTotal ==
    (op.name = "render" /\ rn.cur.top_row.ok /\ rn.cur.top_col.ok)
    => LET top_row == rn.cur.top_row.val
           height == rn.cur.area[2]
       IN /\ rn.cur.cursor[1] < ta.lines_len
          /\ top_row <= rn.cur.cursor[1]
          /\ top_row <= Min(top_row + height, ta.lines_len)
          /\ rn.cur.text.ok
          /\ \/ rn.cur.text.roi < Len(rn.cur.text.block)
             \/ rn.cur.text.patched = <<>>
====
